---- MODULE Spec2Model ----
(***************************************************************************)
(* A model of package method (internal/method/method.go): the method       *)
(* registry Set and its Write, the DefinedOutside filter, the family of    *)
(* New... generators, and the run-time behaviour of the two generated      *)
(* PortableClassItems methods.                                             *)
(*                                                                         *)
(* Go strings that the code compares, sorts or trims are sequences of      *)
(* their bytes; strings the code only passes through are TLA+ strings.     *)
(***************************************************************************)
EXTENDS Integers, Sequences, FiniteSets, TLC

\* Largest number of names in a registry (a Set).
MaxNames == 3
\* Largest number of members of an object's pointer-receiver method set.
MaxMethods == 2
\* Largest number of Write calls in one behaviour.
MaxRuns == 2
\* Largest number of generator applications in one behaviour of SpecGen.
MaxDecls == 2
\* Largest length of the slice handed to SetPortableClassItems.
MaxItems == 3
\* Largest length of the Items field after construction.
MaxInitItems == 2
\* Largest number of calls of the generated methods in one behaviour.
MaxCalls == 3

VARIABLES
    s,            \* the registry: a Set, method name -> generator
    o,            \* the types.Object handed to Write, to the filter, to a generator
    filename,     \* the filename DefinedOutside was given
    f,            \* the jen.File: the sequence of items added so far
    order,        \* the order in which the last Write's range over s yielded the names
    names,        \* the last Write's names slice after sort.Strings
    asked,        \* the names the last Write handed to the filter, in order
    calls,        \* the names whose generator the last Write invoked, in order
    emitted,      \* the items the last Write added to f
    prevEmitted,  \* the items the Write before it added
    runs,         \* the number of Write calls so far
    query,        \* the last direct call of the filter: its name and its result
    heap,         \* the backing arrays of Element values, by array id
    Items,        \* the receiver's Items field: a slice header
    input,        \* the caller's own slice of PortableClass values
    arg,          \* the argument of the last SetPortableClassItems call
    got,          \* the result of the last GetPortableClassItems call
    prevGot,      \* the result of the Get call before it, with no Set in between
    before,       \* Items and its elements as they were when the last call began
    hist          \* the calls made on the receiver so far, in order

writeVars == <<s, o, filename, f, order, names, asked, calls, emitted, prevEmitted, runs, query>>
itemVars == <<heap, Items, input, arg, got, prevGot, before, hist>>
vars == <<s, o, filename, f, order, names, asked, calls, emitted, prevEmitted, runs, query,
          heap, Items, input, arg, got, prevGot, before, hist>>

----------------------------------------------------------------------------
(* Go strings as byte sequences *)

\* "AddFoo"
S_AddFoo == <<65, 100, 100, 70, 111, 111>>
\* "GetFoo"
S_GetFoo == <<71, 101, 116, 70, 111, 111>>
\* "SetFoo"
S_SetFoo == <<83, 101, 116, 70, 111, 111>>
\* "Validate"
S_Validate == <<86, 97, 108, 105, 100, 97, 116, 101>>
\* "Foo"
S_Foo == <<70, 111, 111>>
\* "FooList"
S_FooList == <<70, 111, 111, 76, 105, 115, 116>>
\* "List"
S_List == <<76, 105, 115, 116>>
\* "SetConditions"
S_SetConditions == <<83, 101, 116, 67, 111, 110, 100, 105, 116, 105, 111, 110, 115>>
\* "GetCondition"
S_GetCondition == <<71, 101, 116, 67, 111, 110, 100, 105, 116, 105, 111, 110>>
\* "SetBindingPhase"
S_SetBindingPhase == <<83, 101, 116, 66, 105, 110, 100, 105, 110, 103, 80, 104, 97, 115, 101>>
\* "GetBindingPhase"
S_GetBindingPhase == <<71, 101, 116, 66, 105, 110, 100, 105, 110, 103, 80, 104, 97, 115, 101>>
\* "SetClaimReference"
S_SetClaimReference == <<83, 101, 116, 67, 108, 97, 105, 109, 82, 101, 102, 101, 114, 101, 110, 99, 101>>
\* "GetClaimReference"
S_GetClaimReference == <<71, 101, 116, 67, 108, 97, 105, 109, 82, 101, 102, 101, 114, 101, 110, 99, 101>>
\* "SetResourceReference"
S_SetResourceReference == <<83, 101, 116, 82, 101, 115, 111, 117, 114, 99, 101, 82, 101, 102, 101, 114, 101, 110, 99, 101>>
\* "GetResourceReference"
S_GetResourceReference == <<71, 101, 116, 82, 101, 115, 111, 117, 114, 99, 101, 82, 101, 102, 101, 114, 101, 110, 99, 101>>
\* "SetNonPortableClassReference"
S_SetNonPortableClassReference == <<83, 101, 116, 78, 111, 110, 80, 111, 114, 116, 97, 98, 108, 101, 67, 108, 97, 115, 115, 82, 101, 102, 101, 114, 101, 110, 99, 101>>
\* "GetNonPortableClassReference"
S_GetNonPortableClassReference == <<71, 101, 116, 78, 111, 110, 80, 111, 114, 116, 97, 98, 108, 101, 67, 108, 97, 115, 115, 82, 101, 102, 101, 114, 101, 110, 99, 101>>
\* "SetPortableClassReference"
S_SetPortableClassReference == <<83, 101, 116, 80, 111, 114, 116, 97, 98, 108, 101, 67, 108, 97, 115, 115, 82, 101, 102, 101, 114, 101, 110, 99, 101>>
\* "GetPortableClassReference"
S_GetPortableClassReference == <<71, 101, 116, 80, 111, 114, 116, 97, 98, 108, 101, 67, 108, 97, 115, 115, 82, 101, 102, 101, 114, 101, 110, 99, 101>>
\* "SetWriteConnectionSecretToReference"
S_SetWriteConnectionSecretToReference == <<83, 101, 116, 87, 114, 105, 116, 101, 67, 111, 110, 110, 101, 99, 116, 105, 111, 110, 83, 101, 99, 114, 101, 116, 84, 111, 82, 101, 102, 101, 114, 101, 110, 99, 101>>
\* "GetWriteConnectionSecretToReference"
S_GetWriteConnectionSecretToReference == <<71, 101, 116, 87, 114, 105, 116, 101, 67, 111, 110, 110, 101, 99, 116, 105, 111, 110, 83, 101, 99, 114, 101, 116, 84, 111, 82, 101, 102, 101, 114, 101, 110, 99, 101>>
\* "SetReclaimPolicy"
S_SetReclaimPolicy == <<83, 101, 116, 82, 101, 99, 108, 97, 105, 109, 80, 111, 108, 105, 99, 121>>
\* "GetReclaimPolicy"
S_GetReclaimPolicy == <<71, 101, 116, 82, 101, 99, 108, 97, 105, 109, 80, 111, 108, 105, 99, 121>>
\* "SetPortableClassItems"
S_SetPortableClassItems == <<83, 101, 116, 80, 111, 114, 116, 97, 98, 108, 101, 67, 108, 97, 115, 115, 73, 116, 101, 109, 115>>
\* "GetPortableClassItems"
S_GetPortableClassItems == <<71, 101, 116, 80, 111, 114, 116, 97, 98, 108, 101, 67, 108, 97, 115, 115, 73, 116, 101, 109, 115>>
\* " of this ", the middle of every Commentf format
S_of_this == <<32, 111, 102, 32, 116, 104, 105, 115, 32>>
\* "."
S_Dot == <<46>>
\* "validate", an unexported method name
S_validate == <<118, 97, 108, 105, 100, 97, 116, 101>>
\* "a" and "b", two package paths
S_pkg_a == <<97>>
S_pkg_b == <<98>>
\* "manual.go" and "zz_generated.go", two file names
S_manual_go == <<109, 97, 110, 117, 97, 108, 46, 103, 111>>
S_zz_generated_go == <<122, 122, 95, 103, 101, 110, 101, 114, 97, 116, 101, 100, 46, 103, 111>>

----------------------------------------------------------------------------
(* Strings: comparison, concatenation, suffix *)

\* Go's a < b on strings: bytewise lexicographic, a proper prefix first.
RECURSIVE StrLessFrom(_, _, _)
StrLessFrom(a, b, i) ==
    IF i > Len(a) THEN i <= Len(b)
    ELSE IF i > Len(b) THEN FALSE
    ELSE IF a[i] < b[i] THEN TRUE
    ELSE IF a[i] > b[i] THEN FALSE
    ELSE StrLessFrom(a, b, i + 1)

StrLess(a, b) == StrLessFrom(a, b, 1)

\* strings.HasSuffix(str, suffix).
HasSuffix(str, suffix) ==
    /\ Len(str) >= Len(suffix)
    /\ SubSeq(str, Len(str) - Len(suffix) + 1, Len(str)) = suffix

\* strings.TrimSuffix(str, suffix): str without the trailing suffix, or str itself.
TrimSuffix(str, suffix) ==
    IF HasSuffix(str, suffix) THEN SubSeq(str, 1, Len(str) - Len(suffix)) ELSE str

\* The first byte is an upper-case ASCII letter: token.IsExported for these names.
IsExported(name) == Len(name) > 0 /\ name[1] >= 65 /\ name[1] <= 90

----------------------------------------------------------------------------
(* sort.Strings *)

\* names with x inserted before the first element that is not less than x.
RECURSIVE InsertSorted(_, _)
InsertSorted(sorted, x) ==
    IF sorted = <<>> THEN <<x>>
    ELSE IF StrLess(sorted[1], x) THEN <<sorted[1]>> \o InsertSorted(Tail(sorted), x)
    ELSE <<x>> \o sorted

RECURSIVE InsertionSort(_)
InsertionSort(list) ==
    IF list = <<>> THEN <<>>
    ELSE InsertSorted(InsertionSort(SubSeq(list, 1, Len(list) - 1)), list[Len(list)])

\* A sort that was left out: the names stay in the order the map yielded them.
SortStrings_Unsorted(list) == list

\* sort.Strings(names): names in increasing order.
SortStrings(list) == InsertionSort(list)

----------------------------------------------------------------------------
(* types.Object, its method set, and the DefinedOutside filter *)

\* Object.Id() of a method: the name if exported, else the package path, ".", the name.
Id(m) == IF IsExported(m.name) THEN m.name ELSE m.pkg \o S_Dot \o m.name

\* types.NewMethodSet(types.NewPointer(o.Type())): the members of the method set of
\* *T, which go/types keeps sorted by Id. A member is the method's name, the package
\* that declares it, and file = fs.Position(mo.Pos()).Filename.
NewMethodSet(obj) == obj.methods

\* A loop that decides on the first member with the name, whatever follows it.
RECURSIVE DefinedOutsideLoop_FirstMatch(_, _, _, _)
DefinedOutsideLoop_FirstMatch(ms, fname, name, i) ==
    IF i > Len(ms) THEN FALSE
    ELSE IF ms[i].name # name THEN DefinedOutsideLoop_FirstMatch(ms, fname, name, i + 1)
    ELSE ms[i].file # fname

\* A loop that looks at the name alone and never at the file.
RECURSIVE DefinedOutsideLoop_NameOnly(_, _, _, _)
DefinedOutsideLoop_NameOnly(ms, fname, name, i) ==
    IF i > Len(ms) THEN FALSE
    ELSE IF ms[i].name # name THEN DefinedOutsideLoop_NameOnly(ms, fname, name, i + 1)
    ELSE TRUE

\* The loop of the filter from index i on: true at the first member called name
\* whose file is not fname, false when the members run out.
RECURSIVE DefinedOutsideLoop(_, _, _, _)
DefinedOutsideLoop(ms, fname, name, i) ==
    IF i > Len(ms) THEN FALSE
    ELSE IF ms[i].name # name THEN DefinedOutsideLoop(ms, fname, name, i + 1)
    ELSE IF ms[i].file # fname THEN TRUE
    ELSE DefinedOutsideLoop(ms, fname, name, i + 1)

\* The Filter that DefinedOutside(fs, fname) returns, applied to (obj, name).
DefinedOutside(fname, obj, name) == DefinedOutsideLoop(NewMethodSet(obj), fname, name, 1)

----------------------------------------------------------------------------
(* The jen.File and the statements the generators add to it *)

\* fields.NameStatus and fields.NameSpec.
NameStatus == "Status"
NameSpec == "Spec"

\* jen.Qual(path, name): a name qualified by its import path.
Qual(path, name) == [path |-> path, name |-> name]

\* One parameter or result: jen.Id(id).Op(op).Qual(...); op is "", "*", "..." or "[]".
Param(id, op, type) == [id |-> id, op |-> op, type |-> type]

\* f.Commentf(format, o.Name()) with format "<method> of this %s.".
Commentf(file, method, obj) ==
    Append(file, [kind |-> "comment", text |-> method \o S_of_this \o obj.name \o S_Dot])

\* f.Func().Params(jen.Id(receiver).Op("*").Id(o.Name())).Id(name).Params(params)
\* followed by the result types, if any, and .Block(body).
Func(file, receiver, obj, name, params, results, body) ==
    Append(file, [kind |-> "func",
                  recv |-> Param(receiver, "*", obj.name),
                  name |-> name,
                  params |-> params,
                  results |-> results,
                  body |-> body])

\* jen.Id(a).Dot(b).Dot(c): a selector path.
Sel(path) == [expr |-> "sel", path |-> path]
\* <path>.Call(args).
Call(path, args) == [expr |-> "call", fn |-> path, args |-> args]
\* A statement that is one expression.
ExprStmt(e) == [stmt |-> "expr", value |-> e]
\* jen.Return(e).
Return(e) == [stmt |-> "return", value |-> e]
\* <lhs>.Op("=").<rhs>.
Assign(lhs, rhs) == [stmt |-> "assign", lhs |-> lhs, rhs |-> rhs]

----------------------------------------------------------------------------
(* The generators: each New... (receiver, package, ...) applied to (f, o) *)

NewSetConditions(receiver, runtime, file, obj) ==
    Func(Commentf(file, S_SetConditions, obj), receiver, obj, S_SetConditions,
         <<Param("c", "...", Qual(runtime, "Condition"))>>,
         <<>>,
         <<ExprStmt(Call(<<receiver, NameStatus, "SetConditions">>, <<"c...">>))>>)

NewGetCondition(receiver, runtime, file, obj) ==
    Func(Commentf(file, S_GetCondition, obj), receiver, obj, S_GetCondition,
         <<Param("c", "...", Qual(runtime, "Condition"))>>,
         <<>>,
         <<ExprStmt(Call(<<receiver, NameStatus, "GetCondition">>, <<"c...">>))>>)

NewSetBindingPhase(receiver, runtime, file, obj) ==
    Func(Commentf(file, S_SetBindingPhase, obj), receiver, obj, S_SetBindingPhase,
         <<Param("p", "", Qual(runtime, "BindingPhase"))>>,
         <<>>,
         <<ExprStmt(Call(<<receiver, NameStatus, "SetBindingPhase">>, <<"p">>))>>)

NewGetBindingPhase(receiver, runtime, file, obj) ==
    Func(Commentf(file, S_GetBindingPhase, obj), receiver, obj, S_GetBindingPhase,
         <<>>,
         <<Param("", "", Qual(runtime, "BindingPhase"))>>,
         <<Return(Call(<<receiver, NameStatus, "GetBindingPhase">>, <<>>))>>)

NewSetClaimReference(receiver, core, file, obj) ==
    Func(Commentf(file, S_SetClaimReference, obj), receiver, obj, S_SetClaimReference,
         <<Param("r", "*", Qual(core, "ObjectReference"))>>,
         <<>>,
         <<Assign(Sel(<<receiver, NameSpec, "ClaimReference">>), Sel(<<"r">>))>>)

NewGetClaimReference(receiver, core, file, obj) ==
    Func(Commentf(file, S_GetClaimReference, obj), receiver, obj, S_GetClaimReference,
         <<>>,
         <<Param("", "*", Qual(core, "ObjectReference"))>>,
         <<Return(Sel(<<receiver, NameSpec, "ClaimReference">>))>>)

NewSetResourceReference(receiver, core, file, obj) ==
    Func(Commentf(file, S_SetResourceReference, obj), receiver, obj, S_SetResourceReference,
         <<Param("r", "*", Qual(core, "ObjectReference"))>>,
         <<>>,
         <<Assign(Sel(<<receiver, NameSpec, "ResourceReference">>), Sel(<<"r">>))>>)

NewGetResourceReference(receiver, core, file, obj) ==
    Func(Commentf(file, S_GetResourceReference, obj), receiver, obj, S_GetResourceReference,
         <<>>,
         <<Param("", "*", Qual(core, "ObjectReference"))>>,
         <<Return(Sel(<<receiver, NameSpec, "ResourceReference">>))>>)

NewSetNonPortableClassReference(receiver, core, file, obj) ==
    Func(Commentf(file, S_SetNonPortableClassReference, obj), receiver, obj,
         S_SetNonPortableClassReference,
         <<Param("r", "*", Qual(core, "ObjectReference"))>>,
         <<>>,
         <<Assign(Sel(<<receiver, NameSpec, "NonPortableClassReference">>), Sel(<<"r">>))>>)

NewGetNonPortableClassReference(receiver, core, file, obj) ==
    Func(Commentf(file, S_GetNonPortableClassReference, obj), receiver, obj,
         S_GetNonPortableClassReference,
         <<>>,
         <<Param("", "*", Qual(core, "ObjectReference"))>>,
         <<Return(Sel(<<receiver, NameSpec, "NonPortableClassReference">>))>>)

NewSetPortableClassReference(receiver, core, file, obj) ==
    Func(Commentf(file, S_SetPortableClassReference, obj), receiver, obj,
         S_SetPortableClassReference,
         <<Param("r", "*", Qual(core, "LocalObjectReference"))>>,
         <<>>,
         <<Assign(Sel(<<receiver, NameSpec, "PortableClassReference">>), Sel(<<"r">>))>>)

NewGetPortableClassReference(receiver, core, file, obj) ==
    Func(Commentf(file, S_GetPortableClassReference, obj), receiver, obj,
         S_GetPortableClassReference,
         <<>>,
         <<Param("", "*", Qual(core, "LocalObjectReference"))>>,
         <<Return(Sel(<<receiver, NameSpec, "PortableClassReference">>))>>)

NewSetWriteConnectionSecretToReference(receiver, core, file, obj) ==
    Func(Commentf(file, S_SetWriteConnectionSecretToReference, obj), receiver, obj,
         S_SetWriteConnectionSecretToReference,
         <<Param("r", "", Qual(core, "LocalObjectReference"))>>,
         <<>>,
         <<Assign(Sel(<<receiver, NameSpec, "WriteConnectionSecretToReference">>), Sel(<<"r">>))>>)

NewGetWriteConnectionSecretToReference(receiver, core, file, obj) ==
    Func(Commentf(file, S_GetWriteConnectionSecretToReference, obj), receiver, obj,
         S_GetWriteConnectionSecretToReference,
         <<>>,
         <<Param("", "", Qual(core, "LocalObjectReference"))>>,
         <<Return(Sel(<<receiver, NameSpec, "WriteConnectionSecretToReference">>))>>)

NewSetReclaimPolicy(receiver, core, field, file, obj) ==
    Func(Commentf(file, S_SetReclaimPolicy, obj), receiver, obj, S_SetReclaimPolicy,
         <<Param("r", "", Qual(core, "ReclaimPolicy"))>>,
         <<>>,
         <<Assign(Sel(<<receiver, field, "ReclaimPolicy">>), Sel(<<"r">>))>>)

NewGetReclaimPolicy(receiver, runtime, field, file, obj) ==
    Func(Commentf(file, S_GetReclaimPolicy, obj), receiver, obj, S_GetReclaimPolicy,
         <<>>,
         <<Param("", "", Qual(runtime, "ReclaimPolicy"))>>,
         <<Return(Sel(<<receiver, field, "ReclaimPolicy">>))>>)

\* The generated body is: Items = make([]element, 0, len(i)); for j := range i
\* { if actual, ok := i[j].(*element); ok { Items = append(Items, *actual) } }
NewSetPortableClassItems(receiver, resource, file, obj) ==
    LET element == TrimSuffix(obj.name, S_List) IN
    Func(Commentf(file, S_SetPortableClassItems, obj), receiver, obj, S_SetPortableClassItems,
         <<Param("i", "[]", Qual(resource, "PortableClass"))>>,
         <<>>,
         <<Assign(Sel(<<receiver, "Items">>),
                  [expr |-> "make", type |-> Param("", "[]", element), len |-> "0", cap |-> "len(i)"]),
           [stmt |-> "for", var |-> "j", range |-> Sel(<<"i">>),
            body |-> <<[stmt |-> "if",
                        init |-> [expr |-> "assert", vars |-> <<"actual", "ok">>,
                                  of |-> "i[j]", type |-> Param("", "*", element)],
                        cond |-> "ok",
                        body |-> <<Assign(Sel(<<receiver, "Items">>),
                                          [expr |-> "append", to |-> Sel(<<receiver, "Items">>),
                                           value |-> "*actual"])>>]>>]>>)

\* The generated body is: items := make([]PortableClass, len(Items)); for i := range
\* Items { items[i] = PortableClass(&Items[i]) }; return items
NewGetPortableClassItems(receiver, resource, file, obj) ==
    Func(Commentf(file, S_GetPortableClassItems, obj), receiver, obj, S_GetPortableClassItems,
         <<>>,
         <<Param("", "[]", Qual(resource, "PortableClass"))>>,
         <<[stmt |-> "define", lhs |-> "items",
            rhs |-> [expr |-> "make", type |-> Param("", "[]", Qual(resource, "PortableClass")),
                     len |-> "len(Items)"]],
           [stmt |-> "for", var |-> "i", range |-> Sel(<<receiver, "Items">>),
            body |-> <<Assign("items[i]",
                              [expr |-> "convert", type |-> Qual(resource, "PortableClass"),
                               value |-> "&Items[i]"])>>],
           Return(Sel(<<"items">>))>>)

----------------------------------------------------------------------------
(* Generators as values, and the registry *)

\* The strings the callers of the New... functions hand them.
Receiver == "mg"
RuntimeImport == "github.com/crossplaneio/crossplane-runtime/apis/core/v1alpha1"
CoreImport == "k8s.io/api/core/v1"
ResourceImport == "github.com/crossplaneio/crossplane-runtime/pkg/resource"
\* The field a ReclaimPolicy generator is given: Spec or SpecTemplate.
ReclaimFields == {NameSpec, "SpecTemplate"}

\* A New: the closure a New... function returns, as the function's name and the
\* strings it closed over.
Gen(new, receiver, pkg, field) == [new |-> new, receiver |-> receiver, pkg |-> pkg, field |-> field]

\* The call g(f, o) of a New.
Invoke(g, file, obj) ==
    CASE g.new = "NewSetConditions" -> NewSetConditions(g.receiver, g.pkg, file, obj)
      [] g.new = "NewGetCondition" -> NewGetCondition(g.receiver, g.pkg, file, obj)
      [] g.new = "NewSetBindingPhase" -> NewSetBindingPhase(g.receiver, g.pkg, file, obj)
      [] g.new = "NewGetBindingPhase" -> NewGetBindingPhase(g.receiver, g.pkg, file, obj)
      [] g.new = "NewSetClaimReference" -> NewSetClaimReference(g.receiver, g.pkg, file, obj)
      [] g.new = "NewGetClaimReference" -> NewGetClaimReference(g.receiver, g.pkg, file, obj)
      [] g.new = "NewSetResourceReference" -> NewSetResourceReference(g.receiver, g.pkg, file, obj)
      [] g.new = "NewGetResourceReference" -> NewGetResourceReference(g.receiver, g.pkg, file, obj)
      [] g.new = "NewSetNonPortableClassReference" ->
            NewSetNonPortableClassReference(g.receiver, g.pkg, file, obj)
      [] g.new = "NewGetNonPortableClassReference" ->
            NewGetNonPortableClassReference(g.receiver, g.pkg, file, obj)
      [] g.new = "NewSetPortableClassReference" ->
            NewSetPortableClassReference(g.receiver, g.pkg, file, obj)
      [] g.new = "NewGetPortableClassReference" ->
            NewGetPortableClassReference(g.receiver, g.pkg, file, obj)
      [] g.new = "NewSetWriteConnectionSecretToReference" ->
            NewSetWriteConnectionSecretToReference(g.receiver, g.pkg, file, obj)
      [] g.new = "NewGetWriteConnectionSecretToReference" ->
            NewGetWriteConnectionSecretToReference(g.receiver, g.pkg, file, obj)
      [] g.new = "NewSetReclaimPolicy" -> NewSetReclaimPolicy(g.receiver, g.pkg, g.field, file, obj)
      [] g.new = "NewGetReclaimPolicy" -> NewGetReclaimPolicy(g.receiver, g.pkg, g.field, file, obj)
      [] g.new = "NewSetPortableClassItems" -> NewSetPortableClassItems(g.receiver, g.pkg, file, obj)
      [] g.new = "NewGetPortableClassItems" -> NewGetPortableClassItems(g.receiver, g.pkg, file, obj)

\* Every generator of the package, with the strings above.
AllGenerators ==
    {Gen(n, Receiver, RuntimeImport, "") :
        n \in {"NewSetConditions", "NewGetCondition", "NewSetBindingPhase", "NewGetBindingPhase"}}
    \cup {Gen(n, Receiver, CoreImport, "") :
        n \in {"NewSetClaimReference", "NewGetClaimReference", "NewSetResourceReference",
               "NewGetResourceReference", "NewSetNonPortableClassReference",
               "NewGetNonPortableClassReference", "NewSetPortableClassReference",
               "NewGetPortableClassReference", "NewSetWriteConnectionSecretToReference",
               "NewGetWriteConnectionSecretToReference"}}
    \cup {Gen("NewSetReclaimPolicy", Receiver, CoreImport, fld) : fld \in ReclaimFields}
    \cup {Gen("NewGetReclaimPolicy", Receiver, RuntimeImport, fld) : fld \in ReclaimFields}
    \cup {Gen(n, Receiver, ResourceImport, "") :
        n \in {"NewSetPortableClassItems", "NewGetPortableClassItems"}}

\* The names a registry may hold, and the generator filed under each. A Set is a
\* plain map: the name a generator is filed under need not be the name of the
\* method it writes.
Methods ==
    (S_GetCondition :> Gen("NewGetCondition", Receiver, RuntimeImport, ""))
    @@ (S_AddFoo :> Gen("NewSetClaimReference", Receiver, CoreImport, ""))
    @@ (S_GetFoo :> Gen("NewGetBindingPhase", Receiver, RuntimeImport, ""))
    @@ (S_SetFoo :> Gen("NewSetBindingPhase", Receiver, RuntimeImport, ""))
    @@ (S_Validate :> Gen("NewSetReclaimPolicy", Receiver, CoreImport, NameSpec))
    @@ (S_validate :> Gen("NewGetReclaimPolicy", Receiver, RuntimeImport, NameSpec))

\* The registries: every Set of at most MaxNames of these names.
Registries ==
    {[n \in D |-> Methods[n]] : D \in {D \in SUBSET DOMAIN Methods : Cardinality(D) <= MaxNames}}

\* The file names, the packages and the method names of the objects' method sets.
Files == {S_manual_go, S_zz_generated_go}
Pkgs == {S_pkg_a, S_pkg_b}
MethodNames == {S_Validate, S_validate}
\* The package of an exported method is no part of its Id: one package is enough.
Members == {m \in [name : MethodNames, pkg : Pkgs, file : Files] :
               IsExported(m.name) => m.pkg = S_pkg_a}

\* The method sets go/types can build: at most MaxMethods members in strictly
\* increasing order of Id.
MethodSets ==
    UNION {{ms \in [1..n -> Members] : \A i \in 1..(n - 1) : StrLess(Id(ms[i]), Id(ms[i + 1]))} :
           n \in 0..MaxMethods}

\* The objects: a named type and the method set of a pointer to it.
Objects == [name : {S_FooList}, methods : MethodSets]

\* The orders in which a range over a map with key set D can yield its keys.
Orders(D) == {q \in [1..Cardinality(D) -> D] : \A n \in D : \E i \in DOMAIN q : q[i] = n}

----------------------------------------------------------------------------
(* Set.Write *)

\* The loop that ignores the filter's answer.
RECURSIVE WriteLoop_NoContinue(_, _, _, _, _, _)
WriteLoop_NoContinue(reg, obj, fname, nms, i, st) ==
    IF i > Len(nms) THEN st
    ELSE WriteLoop_NoContinue(reg, obj, fname, nms, i + 1,
             [f |-> Invoke(reg[nms[i]], st.f, obj),
              asked |-> Append(st.asked, nms[i]),
              calls |-> Append(st.calls, nms[i])])

\* for _, name := range names { if mf(o, name) { continue }; s[name](f, o) } from
\* index i on, with mf the filter DefinedOutside(fs, fname). st is the file so far,
\* the names handed to mf so far and the names whose generator was invoked so far.
RECURSIVE WriteLoop(_, _, _, _, _, _)
WriteLoop(reg, obj, fname, nms, i, st) ==
    IF i > Len(nms) THEN st
    ELSE IF DefinedOutside(fname, obj, nms[i])
         THEN WriteLoop(reg, obj, fname, nms, i + 1,
                  [st EXCEPT !.asked = Append(st.asked, nms[i])])
         ELSE WriteLoop(reg, obj, fname, nms, i + 1,
                  [f |-> Invoke(reg[nms[i]], st.f, obj),
                   asked |-> Append(st.asked, nms[i]),
                   calls |-> Append(st.calls, nms[i])])

\* s.Write(f, o, mf): the names are collected in the order ord in which the range
\* over the map yields them, sorted, and the loop runs over the sorted names.
Write ==
    /\ runs < MaxRuns
    /\ \E ord \in Orders(DOMAIN s) :
         \E sorted \in {SortStrings(ord)} :
           \E r \in {WriteLoop(s, o, filename, sorted, 1, [f |-> f, asked |-> <<>>, calls |-> <<>>])} :
              /\ f' = r.f
              /\ order' = ord
              /\ names' = sorted
              /\ asked' = r.asked
              /\ calls' = r.calls
              /\ emitted' = SubSeq(r.f, Len(f) + 1, Len(r.f))
              /\ prevEmitted' = emitted
              /\ runs' = runs + 1
    /\ UNCHANGED <<s, o, filename, query>>
    /\ UNCHANGED itemVars

NoQuery == [name |-> <<>>, result |-> FALSE, asked |-> FALSE]

\* A call mf(o, name) of the filter DefinedOutside(fs, filename) on its own.
CallFilter ==
    /\ \E name \in DOMAIN Methods :
           query' = [name |-> name, result |-> DefinedOutside(filename, o, name), asked |-> TRUE]
    /\ UNCHANGED <<s, o, filename, f, order, names, asked, calls, emitted, prevEmitted, runs>>
    /\ UNCHANGED itemVars

\* A direct call g(f, o) of one of the package's generators.
Generate ==
    /\ Len(f) < 2 * MaxDecls
    /\ \E g \in AllGenerators : f' = Invoke(g, f, o)
    /\ UNCHANGED <<s, o, filename, order, names, asked, calls, emitted, prevEmitted, runs, query>>
    /\ UNCHANGED itemVars

----------------------------------------------------------------------------
(* The generated SetPortableClassItems and GetPortableClassItems at run time *)

\* The values of the concrete element type; 0 is its zero value.
ElementValues == {1, 2}

\* A slice of elements: its backing array (0: none), its length and its capacity.
Slice(a, l, c) == [arr |-> a, len |-> l, cap |-> c]
NilSlice == Slice(0, 0, 0)

\* A PortableClass value: its dynamic type and, for a pointer, the element it
\* points to (arr = 0: a nil pointer).
Iface(t, a, i) == [type |-> t, arr |-> a, idx |-> i]
\* The nil interface, a value of another type that implements PortableClass, a nil
\* pointer to the element type, and a pointer to element i of array a.
NilIface == Iface("nil", 0, 0)
OtherValue == Iface("*Other", 0, 0)
NilElementPtr == Iface("*Element", 0, 0)
ElementPtr(a, i) == Iface("*Element", a, i)

\* make([]Element, l, c): a new zeroed array at the end of the heap.
MakeArray(h, c) == Append(h, [k \in 1..c |-> 0])

\* append(sl, v): in place when there is room, else into a new, larger array.
AppendElem(h, sl, v) ==
    IF sl.len < sl.cap
    THEN [heap |-> [h EXCEPT ![sl.arr][sl.len + 1] = v],
          slice |-> Slice(sl.arr, sl.len + 1, sl.cap)]
    ELSE LET c == IF sl.cap = 0 THEN 1 ELSE 2 * sl.cap
             old == IF sl.arr = 0 THEN <<>> ELSE SubSeq(h[sl.arr], 1, sl.len)
             fresh == [k \in 1..c |-> IF k <= sl.len THEN old[k] ELSE IF k = sl.len + 1 THEN v ELSE 0]
         IN [heap |-> Append(h, fresh), slice |-> Slice(Len(h) + 1, sl.len + 1, c)]

\* i[j].(*Element): ok exactly when the dynamic type is *Element.
AssertOk(v) == v.type = "*Element"

\* for j := range i { if actual, ok := i[j].(*Element); ok { Items = append(Items,
\* *actual) } } from index j on. Dereferencing a nil actual panics.
RECURSIVE SetLoop(_, _, _, _)
SetLoop(h, sl, i, j) ==
    IF j > Len(i) THEN [heap |-> h, Items |-> sl, panicked |-> FALSE]
    ELSE IF ~AssertOk(i[j]) THEN SetLoop(h, sl, i, j + 1)
    ELSE IF i[j].arr = 0 THEN [heap |-> h, Items |-> sl, panicked |-> TRUE]
    ELSE LET r == AppendElem(h, sl, h[i[j].arr][i[j].idx])
         IN SetLoop(r.heap, r.slice, i, j + 1)

\* The body whose make gives the new slice len(i) zero elements, not room for len(i).
SetPortableClassItems_MakeLen(h, sl, i) ==
    SetLoop(MakeArray(h, Len(i)), Slice(Len(h) + 1, Len(i), Len(i)), i, 1)

\* The body without the make: the elements are appended to what Items holds.
SetPortableClassItems_NoMake(h, sl, i) == SetLoop(h, sl, i, 1)

\* The generated SetPortableClassItems(i) on a receiver whose Items is sl.
SetPortableClassItems(h, sl, i) ==
    SetLoop(MakeArray(h, Len(i)), Slice(Len(h) + 1, 0, Len(i)), i, 1)

\* The body that ranges over the values and takes the address of the loop variable.
GetPortableClassItems_LoopVar(h, sl) ==
    [heap |-> Append(h, IF sl.len = 0 THEN <<>> ELSE <<h[sl.arr][sl.len]>>), Items |-> sl,
     result |-> [k \in 1..sl.len |-> ElementPtr(Len(h) + 1, 1)]]

\* The body that takes the address of a copy of each element.
GetPortableClassItems_Copy(h, sl) ==
    LET copy == [k \in 1..sl.len |-> h[sl.arr][k]]
    IN [heap |-> Append(h, copy), Items |-> sl,
        result |-> [k \in 1..sl.len |-> ElementPtr(Len(h) + 1, k)]]

\* The generated GetPortableClassItems() on a receiver whose Items is sl.
GetPortableClassItems(h, sl) ==
    [heap |-> h, Items |-> sl, result |-> [k \in 1..sl.len |-> ElementPtr(sl.arr, k)]]

\* The elements of a slice, and the element a pointer points to.
Elements(h, sl) == [k \in 1..sl.len |-> h[sl.arr][k]]
Deref(h, p) == h[p.arr][p.idx]

\* No result yet: no slice a Get can return.
NoResult == <<Iface("none", 0, 0)>>

\* The caller's own elements, array 1 of the heap.
CallerElements == <<1, 2>>
\* What the caller can put in a slice of PortableClass values.
CallerValues ==
    {ElementPtr(1, k) : k \in 1..Len(CallerElements)} \cup {NilIface, OtherValue, NilElementPtr}
Inputs == UNION {[1..n -> CallerValues] : n \in 0..MaxItems}
InitialItems == UNION {[1..n -> ElementValues] : n \in 0..MaxInitItems}

\* No call has panicked: a panic ends the program.
Running == IF hist = <<>> THEN TRUE ELSE hist[Len(hist)] # "panic"

\* A call SetPortableClassItems(i) with i the caller's slice or the result of the
\* last Get. A panic ends the program.
Set ==
    /\ Len(hist) < MaxCalls
    /\ Running
    /\ \E i \in {input} \cup (IF got = NoResult THEN {} ELSE {got}) :
           LET r == SetPortableClassItems(heap, Items, i)
           IN /\ heap' = r.heap
              /\ Items' = r.Items
              /\ arg' = i
              /\ hist' = Append(hist, IF r.panicked THEN "panic" ELSE "Set")
    /\ before' = [Items |-> Items, elements |-> Elements(heap, Items)]
    /\ got' = NoResult
    /\ prevGot' = NoResult
    /\ UNCHANGED input
    /\ UNCHANGED writeVars

\* A call GetPortableClassItems().
Get ==
    /\ Len(hist) < MaxCalls
    /\ Running
    /\ LET r == GetPortableClassItems(heap, Items)
       IN /\ heap' = r.heap
          /\ Items' = r.Items
          /\ got' = r.result
    /\ prevGot' = got
    /\ before' = [Items |-> Items, elements |-> Elements(heap, Items)]
    /\ hist' = Append(hist, "Get")
    /\ UNCHANGED <<input, arg>>
    /\ UNCHANGED writeVars

\* The caller stores the other element value through element k of the last Get's result.
Store ==
    /\ Len(hist) < MaxCalls
    /\ Running
    /\ got # NoResult
    /\ \E k \in DOMAIN got :
           /\ heap' = [heap EXCEPT ![got[k].arr][got[k].idx] = 3 - Deref(heap, got[k])]
           /\ hist' = Append(hist, "Store")
    /\ before' = [Items |-> Items, elements |-> Elements(heap, Items)]
    /\ UNCHANGED <<Items, input, arg, got, prevGot>>
    /\ UNCHANGED writeVars

----------------------------------------------------------------------------
(* Specifications *)

WriteIdle ==
    /\ f = <<>> /\ order = <<>> /\ names = <<>> /\ asked = <<>> /\ calls = <<>>
    /\ emitted = <<>> /\ prevEmitted = <<>> /\ runs = 0 /\ query = NoQuery

ItemsIdle ==
    /\ heap = <<CallerElements>> /\ Items = NilSlice /\ input = <<>> /\ arg = <<>>
    /\ got = NoResult /\ prevGot = NoResult /\ hist = <<>>
    /\ before = [Items |-> NilSlice, elements |-> <<>>]

\* A registry, an object and a target file name; nothing written yet.
InitWrite ==
    /\ s \in Registries
    /\ o \in Objects
    /\ filename \in Files
    /\ WriteIdle
    /\ ItemsIdle

NextWrite == Write
SpecWrite == InitWrite /\ [][NextWrite]_vars

NextFilter == CallFilter
SpecFilter == InitWrite /\ [][NextFilter]_vars

\* An object with no methods of its own and an empty file.
InitGen ==
    /\ s = <<>>
    /\ o \in [name : {S_Foo, S_FooList}, methods : {<<>>}]
    /\ filename = S_zz_generated_go
    /\ WriteIdle
    /\ ItemsIdle

NextGen == Generate
SpecGen == InitGen /\ [][NextGen]_vars

\* A receiver with some Items and a caller with a slice of PortableClass values.
InitItems ==
    /\ s = <<>>
    /\ o = [name |-> S_FooList, methods |-> <<>>]
    /\ filename = S_zz_generated_go
    /\ WriteIdle
    /\ \E init \in InitialItems :
           /\ heap = <<CallerElements, init>>
           /\ Items = Slice(2, Len(init), Len(init))
    /\ input \in Inputs
    /\ arg = <<>>
    /\ got = NoResult
    /\ prevGot = NoResult
    /\ before = [Items |-> NilSlice, elements |-> <<>>]
    /\ hist = <<>>

NextItems == Set \/ Get \/ Store
SpecItems == InitItems /\ [][NextItems]_vars

----------------------------------------------------------------------------
(* Properties *)

\* The number of times n occurs in the sequence q.
Count(n, q) == Cardinality({i \in DOMAIN q : q[i] = n})

\* The method set of o has a member called n.
HasMethod(n) == \E i \in DOMAIN NewMethodSet(o) : NewMethodSet(o)[i].name = n

\* The method set of o has a member called n declared in another file than filename.
HasMethodOutside(n) ==
    \E i \in DOMAIN NewMethodSet(o) :
        NewMethodSet(o)[i].name = n /\ NewMethodSet(o)[i].file # filename

\* The items the generators filed under the names cs add to an empty file, in order.
RECURSIVE ItemsOf(_)
ItemsOf(cs) == IF cs = <<>> THEN <<>> ELSE Invoke(s[cs[1]], <<>>, o) \o ItemsOf(Tail(cs))

\* C1: the generators a Write invokes are invoked in strictly ascending bytewise
\* lexicographic order of their names, whatever order the map yielded the names in.
C1_WriteAscending ==
    \A i, j \in DOMAIN calls : i < j => StrLess(calls[i], calls[j])

\* C1 witness: the registry {GetFoo, SetFoo, AddFoo}, yielded in that order, with
\* nothing suppressed, has its generators invoked as AddFoo, GetFoo, SetFoo.
C1_Witness ==
    /\ runs >= 1
    /\ order = <<S_GetFoo, S_SetFoo, S_AddFoo>>
    /\ calls = <<S_AddFoo, S_GetFoo, S_SetFoo>>

\* C2: in one Write, the filter is asked once about every name of the registry; a
\* name it answers true for has no generator call and nothing added to the file; a
\* name it answers false for has exactly one generator call; the file grows by
\* exactly what the invoked generators add, each once.
C2_SuppressedNeverInvoked ==
    runs >= 1 =>
        /\ \A n \in DOMAIN s :
              /\ Count(n, asked) = 1
              /\ DefinedOutside(filename, o, n) => Count(n, calls) = 0
              /\ ~DefinedOutside(filename, o, n) => Count(n, calls) = 1
        /\ \A k \in DOMAIN calls : calls[k] \in DOMAIN s
        /\ emitted = ItemsOf(calls)

\* C2 witness: Validate is declared in manual.go, the filter targets
\* zz_generated.go, and a Write of a registry holding Validate and GetFoo invoked
\* the generator of GetFoo alone.
C2_Witness ==
    /\ runs >= 1
    /\ filename = S_zz_generated_go
    /\ DOMAIN s = {S_Validate, S_GetFoo}
    /\ \E i \in DOMAIN NewMethodSet(o) :
          NewMethodSet(o)[i].name = S_Validate /\ NewMethodSet(o)[i].file = S_manual_go
    /\ calls = <<S_GetFoo>>
    /\ Len(emitted) = 2

\* C3: when the object has no method with a name of the registry, two Writes of the
\* same registry for the same object add the same items in the same order,
\* whatever order the map yielded the names in each time.
C3_WriteDeterministic ==
    (runs >= 2 /\ \A n \in DOMAIN s : ~HasMethod(n)) => emitted = prevEmitted

\* C3 witness: a second Write of a three-name registry, for an object with no
\* methods, whose map yielded the names in another order than the sorted one.
C3_Witness ==
    /\ runs >= 2
    /\ NewMethodSet(o) = <<>>
    /\ Cardinality(DOMAIN s) = 3
    /\ order # names
    /\ Len(emitted) = 6
    /\ emitted = prevEmitted

\* C4: the filter answers true for (o, name) exactly when the method set of a
\* pointer to o has a member called name that is declared in another file than
\* the filter's.
C4_FilterIffOutside ==
    query.asked => (query.result <=> HasMethodOutside(query.name))

\* C4 witness: the only member called Validate is declared in the filter's own
\* file, and the filter answered false for Validate.
C4_Witness ==
    /\ query.asked
    /\ query.name = S_Validate
    /\ HasMethod(S_Validate)
    /\ ~HasMethodOutside(S_Validate)
    /\ query.result = FALSE

\* The permutations of 1..n, and a sequence rearranged by one.
Perms(n) == {p \in [1..n -> 1..n] : \A k \in 1..n : \E i \in 1..n : p[i] = k}
Rearranged(q, p) == [i \in DOMAIN q |-> q[p[i]]]

\* C10: with several members called name in the method set, the filter answers
\* true when any one of them is declared outside its file, and answers the same
\* for every order of the members.
C10_FilterOrderFree ==
    (query.asked /\ Count(query.name, [i \in DOMAIN NewMethodSet(o) |-> NewMethodSet(o)[i].name]) >= 2) =>
        /\ HasMethodOutside(query.name) => query.result
        /\ \A p \in Perms(Len(NewMethodSet(o))) :
              DefinedOutside(filename, [o EXCEPT !.methods = Rearranged(NewMethodSet(o), p)],
                             query.name) = query.result

\* C10 witness: two members called validate, the first declared in the filter's own
\* file and the second in another one, and the filter answered true.
C10_Witness ==
    /\ query.asked
    /\ query.name = S_validate
    /\ query.result = TRUE
    /\ \E i, j \in DOMAIN NewMethodSet(o) :
          /\ i < j
          /\ NewMethodSet(o)[i].name = S_validate
          /\ NewMethodSet(o)[i].file = filename
          /\ NewMethodSet(o)[j].name = S_validate
          /\ NewMethodSet(o)[j].file # filename

\* The names of the Get generators of the accessor family.
GetNames ==
    {S_GetCondition, S_GetBindingPhase, S_GetClaimReference, S_GetResourceReference,
     S_GetNonPortableClassReference, S_GetPortableClassReference,
     S_GetWriteConnectionSecretToReference, S_GetReclaimPolicy}

\* C7: every method a Get generator of the accessor family writes declares a
\* result type and has a body that returns the value at its field path.
C7_GetReturnsValue ==
    \A k \in DOMAIN f :
        (f[k].kind = "func" /\ f[k].name \in GetNames) =>
            /\ f[k].results # <<>>
            /\ Len(f[k].body) = 1
            /\ f[k].body[1].stmt = "return"

\* The values the elements of i that narrow to *Element point to, in order.
Narrowed(h, i) ==
    LET ok == SelectSeq(i, LAMBDA v : v.type = "*Element")
    IN [k \in DOMAIN ok |-> h[ok[k].arr][ok[k].idx]]

\* The values the elements of a Get result point to, in order.
Pointees(h, r) == [k \in DOMAIN r |-> h[r[k].arr][r[k].idx]]

\* The last two calls on the receiver were a and b.
LastTwo(a, b) ==
    /\ Len(hist) >= 2
    /\ hist[Len(hist) - 1] = a
    /\ hist[Len(hist)] = b

C6_GetIdempotent ==
    /\ (got # NoResult /\ prevGot # NoResult) => Pointees(heap, got) = Pointees(heap, prevGot)
    /\ (hist # <<>> /\ hist[Len(hist)] = "Get") =>
          /\ Items = before.Items
          /\ Elements(heap, Items) = before.elements

\* C6 witness: two Gets in a row on a receiver with two elements.
C6_Witness ==
    /\ LastTwo("Get", "Get")
    /\ Len(got) = 2
    /\ Len(prevGot) = 2

C9_GetReturnsView ==
    /\ got # NoResult =>
          /\ Len(got) = Items.len
          /\ \A k \in DOMAIN got : got[k].type = "*Element"
          /\ Pointees(heap, got) = Elements(heap, Items)
    /\ (hist # <<>> /\ hist[Len(hist)] = "Store") => Elements(heap, Items) # before.elements

\* C9 witness: a store through the result of a Get on a receiver with two elements.
C9_Witness ==
    /\ LastTwo("Get", "Store")
    /\ Len(got) = 2
    /\ Elements(heap, Items) # before.elements

====
